---- MODULE Spec2Model ----
(***************************************************************************)
(* Model of the merge module of the learningMachine modules: the format    *)
(* parser (IndexSelector / CompositeSelector / RootSelector), the source   *)
(* list (PortSource / SourceList) and the periodic MergeModule.            *)
(*                                                                         *)
(* Strings are sequences of one-character strings; positions in strings   *)
(* and Bottles are 0-based as in the C++ code.                             *)
(***************************************************************************)
EXTENDS Integers, Sequences, FiniteSets, TLC

VARIABLES
    state,          \* where RFModule::runModule is: Unconfigured, Failed, Running, Interrupted, Exited
    dataSelector,   \* MergeModule::dataSelector (NoSelector is the null pointer)
    sourceMap,      \* SourceList::sourceMap: port name -> PortSource (its data and its port)
    network,        \* per source port: whether its connection exists and the message waiting on it
    outputPort,     \* MergeModule::output: unopened, open, interrupted or closed
    desiredPeriod,  \* MergeModule::desiredPeriod
    pc,             \* position of the periodic thread inside updateModule
    it,             \* SourceList::update: the names the iterator still has to visit
    output,         \* the records written on the output port, in order
    lastError,      \* what the last finished updateModule wrote on std::cerr ("" if nothing)
    readOk,         \* what the last call of Port::read in PortSource::update returned
    exitStatus,     \* <<>> while the process runs, <<n>> once main returned n
    \* the training module (TrainModule, TrainProcessor, DispatcherManager)
    trainState,     \* where RFModule::runModule is: Unconfigured, Running, Exited
    enabled,        \* TrainProcessor::enabled
    machine,        \* the machine of the module: whether one is wrapped, the samples fed, whether trained
    listeners,      \* the listeners of the EventDispatcher, in order
    raised,         \* the number of TrainEvents raised
    model_out,      \* the number of models written on TrainModule::model_out
    reply,          \* the reply to the last command, and what respond returned
    \* the position-direct control thread (positionDirectControlThread)
    threadState,    \* Constructed, Initialised, Started or Released
    suspended,      \* positionDirectControlThread::suspended
    command_port,   \* the Bottles waiting on command_port
    targets,        \* positionDirectControlThread::targets (one joint)
    prev_targets,   \* positionDirectControlThread::prev_targets
    encoders,       \* positionDirectControlThread::encoders
    joint,          \* the position of the joint
    positions       \* the position commands sent by setPositions, in order

mergeVars == <<state, dataSelector, sourceMap, network, outputPort,
               desiredPeriod, pc, it, output, lastError, readOk, exitStatus>>

trainVars == <<trainState, enabled, machine, listeners, raised, model_out,
               reply>>

threadVars == <<threadState, suspended, command_port, targets, prev_targets,
                encoders, joint, positions>>

vars == <<mergeVars, trainVars, threadVars>>

----------------------------------------------------------------------------
(* Results of operations that may throw std::runtime_error.                *)

Ok(v)  == [ok |-> TRUE,  val |-> v,    err |-> ""]
Err(m) == [ok |-> FALSE, val |-> <<>>, err |-> m]

----------------------------------------------------------------------------
(* yarp::os::Value and yarp::os::Bottle as the module uses them.  A Bottle *)
(* is a sequence of Values; a Value is an integer, a string, a nested      *)
(* Bottle, a vocabulary word or the null Value that Bottle::get returns    *)
(* out of range.  Every Value carries all four fields, so that any two      *)
(* Values can be compared.                                                 *)

IntV(n)   == [k |-> "int",   n |-> n, s |-> <<>>, l |-> <<>>]
StrV(str) == [k |-> "str",   n |-> 0, s |-> str,  l |-> <<>>]
ListV(b)  == [k |-> "list",  n |-> 0, s |-> <<>>, l |-> b]
Vocab(w)  == [k |-> "vocab", n |-> 0, s |-> w,    l |-> <<>>]
NullValue == [k |-> "null",  n |-> 0, s |-> <<>>, l |-> <<>>]

isList(val)    == val.k = "list"
isString(val)  == val.k = "str"
isInt32(val)   == val.k = "int"
asList(val)    == val.l
asString(val)  == val.s
asVocab32(val) == val.s
asFloat64(val) == val.n

\* Bottle::get(index): the element, or the null Value when index is out of range
get(bot, idx) == IF idx >= 0 /\ idx < Len(bot) THEN bot[idx + 1] ELSE NullValue

\* Bottle::add(const Value&)
add(bot, val) == Append(bot, val)

\* Bottle::addList(): the Bottle with a new empty nested list at its end
addList(bot) == Append(bot, ListV(<<>>))

----------------------------------------------------------------------------
(* std::string operations used by the parser.                              *)

NPOS == 1000000

Min(S) == CHOOSE x \in S : \A y \in S : x <= y

\* std::string::find(ch, pos)
find(str, ch, pos) ==
    LET hits == {i \in pos..(Len(str) - 1) : str[i + 1] = ch}
    IN  IF hits = {} THEN NPOS ELSE Min(hits)

\* std::string::substr(pos, n)
substr(str, pos, n) ==
    LET last == IF pos + n > Len(str) THEN Len(str) ELSE pos + n
    IN  SubSeq(str, pos + 1, last)

Digits == <<"0", "1", "2", "3", "4", "5", "6", "7", "8", "9">>

isDigit(c) == \E d \in 1..Len(Digits) : Digits[d] = c

digitVal(c) == (CHOOSE d \in 1..Len(Digits) : Digits[d] = c) - 1

RECURSIVE skipSpace(_, _)
skipSpace(str, pos) ==
    IF pos < Len(str) /\ str[pos + 1] = " " THEN skipSpace(str, pos + 1) ELSE pos

RECURSIVE readDigits(_, _, _)
readDigits(str, pos, acc) ==
    IF pos < Len(str) /\ isDigit(str[pos + 1])
    THEN readDigits(str, pos + 1, 10 * acc + digitVal(str[pos + 1]))
    ELSE acc

\* the digits at pos: the longest run is converted, what follows is left unread
readUnsigned(str, pos) ==
    IF pos < Len(str) /\ isDigit(str[pos + 1])
    THEN Ok(readDigits(str, pos, 0))
    ELSE Err("Could not read integer")

negate(r) == IF r.ok THEN Ok(0 - r.val) ELSE r

\* an optional sign and the digits at pos
readSigned(str, pos) ==
    IF pos < Len(str) /\ str[pos + 1] = "-" THEN negate(readUnsigned(str, pos + 1))
    ELSE IF pos < Len(str) /\ str[pos + 1] = "+" THEN readUnsigned(str, pos + 1)
    ELSE readUnsigned(str, pos)

\* IndexSelector::stringToInt: operator>> of an istringstream into an int:
\* leading white space is skipped, a sign is accepted, the longest run of
\* digits is converted and whatever follows it is left unread.
stringToInt(str) == readSigned(str, skipSpace(str, 0))

\* IndexSelector::split
RECURSIVE splitLoop(_, _, _, _)
splitLoop(input, delimiter, start, out) ==
    IF find(input, delimiter, start) = NPOS
    THEN Append(out, substr(input, start, NPOS))
    ELSE splitLoop(input, delimiter, find(input, delimiter, start) + 1,
                   Append(out, substr(input, start, find(input, delimiter, start) - start)))

split(input, delimiter) == splitLoop(input, delimiter, 0, <<>>)

\* push_back of a value that may have thrown: list with r's value appended
pushBack(list, r) == IF r.ok THEN Ok(Append(list, r.val)) ELSE r

\* variant of the loop that stops before end
RECURSIVE pushRange_exclusive(_, _, _)
pushRange_exclusive(idxList, idx, end) ==
    IF idx < end THEN pushRange_exclusive(Append(idxList, idx), idx + 1, end) ELSE idxList

\* the indices start, start+1, ..., end appended to idxList
RECURSIVE pushRange(_, _, _)
pushRange(idxList, idx, end) ==
    IF idx <= end THEN pushRange(Append(idxList, idx), idx + 1, end) ELSE idxList

\* IndexSelector::loadIndices, the branch rangeSplit.size() == 2
loadRange(idxList, start, end) ==
    IF ~start.ok THEN start
    ELSE IF ~end.ok THEN end
    ELSE IF start.val > end.val
    THEN Err("End of range before start of range")
    ELSE Ok(pushRange(idxList, start.val, end.val))

\* IndexSelector::loadIndices: the body of the loop, given rangeSplit
loadIndex(idxList, rangeSplit) ==
    IF Len(rangeSplit) = 0
    THEN Err("Unexpected problem parsing")
    ELSE IF Len(rangeSplit) = 1
    THEN pushBack(idxList, stringToInt(rangeSplit[1]))
    ELSE IF Len(rangeSplit) = 2
    THEN loadRange(idxList, stringToInt(rangeSplit[1]), stringToInt(rangeSplit[2]))
    ELSE Err("Illegal range specification")

\* IndexSelector::loadIndices: the loop over indexSplit; idxList is the list
\* built so far, or the error thrown
RECURSIVE loadIndicesLoop(_, _, _)
loadIndicesLoop(indexSplit, i, idxList) ==
    IF ~idxList.ok \/ i > Len(indexSplit)
    THEN idxList
    ELSE loadIndicesLoop(indexSplit, i + 1,
                         loadIndex(idxList.val, split(indexSplit[i], "-")))

\* IndexSelector::loadIndices: indices with the parsed dimension appended
loadIndices(indices, format) ==
    pushBack(indices, loadIndicesLoop(split(format, ","), 1, Ok(<<>>)))

----------------------------------------------------------------------------
(* The selector tree.                                                      *)

IndexSelector(name, indices) ==
    [t |-> "index", name |-> name, indices |-> indices, children |-> <<>>]
CompositeSelector(children) ==
    [t |-> "composite", name |-> <<>>, indices |-> <<>>, children |-> children]
RootSelector(children) ==
    [t |-> "root", name |-> <<>>, indices |-> <<>>, children |-> children]
NoSelector ==
    [t |-> "null", name |-> <<>>, indices |-> <<>>, children |-> <<>>]

\* IndexSelector::loadFormat: the while loop over the bracketed groups;
\* indices is the list built so far, or the error thrown
RECURSIVE IndexSelector_loadFormatLoop(_, _, _)

\* a loop body that goes on to the next "[" wherever it is
nextGroup_unchecked(format, idxEnd, idxStart, indices) ==
    IF ~indices.ok THEN indices
    ELSE IndexSelector_loadFormatLoop(format, idxStart, indices)

\* the end of the loop body: the next "[" has been looked for
nextGroup(format, idxEnd, idxStart, indices) ==
    IF ~indices.ok THEN indices
    ELSE IF idxStart # NPOS /\ idxStart < idxEnd
    THEN Err("Unexpected opening bracket '['")
    ELSE IndexSelector_loadFormatLoop(format, idxStart, indices)

\* the loop body: the "]" after idxStart has been looked for
loadGroup(format, idxStart, idxEnd, indices) ==
    IF idxEnd = NPOS
    THEN Err("Missing closing bracket ']'")
    ELSE nextGroup(format, idxEnd, find(format, "[", idxStart + 1),
                   loadIndices(indices, substr(format, idxStart + 1, idxEnd - idxStart - 1)))

IndexSelector_loadFormatLoop(format, idxStart, indices) ==
    IF ~indices.ok \/ idxStart = NPOS
    THEN indices
    ELSE loadGroup(format, idxStart, find(format, "]", idxStart), indices.val)

newIndexSelector(name, indices) ==
    IF indices.ok THEN Ok(IndexSelector(name, indices.val)) ELSE indices

loadFormatFrom(format, idxStart) ==
    newIndexSelector(substr(format, 0, idxStart),
                     IndexSelector_loadFormatLoop(format, idxStart, Ok(<<>>)))

\* IndexSelector::IndexSelector(format) / IndexSelector::loadFormat
IndexSelector_loadFormat(format) == loadFormatFrom(format, find(format, "[", 0))

newCompositeSelector(children) ==
    IF children.ok THEN Ok(CompositeSelector(children.val)) ELSE children

\* CompositeSelector::loadFormat: the children parsed from a format Bottle
RECURSIVE CompositeSelector_loadFormat(_)

\* the selector built for one element of the format
newChild(e) ==
    IF isString(e)
    THEN IndexSelector_loadFormat(asString(e))
    ELSE IF isList(e)
    THEN newCompositeSelector(CompositeSelector_loadFormat(asList(e)))
    ELSE Err("Unexpected token during parsing")

\* children kept in the reverse order
addChild_front(children, ds) ==
    IF ds.ok THEN Ok(<<ds.val>> \o children) ELSE ds

\* CompositeSelector::addChild of a selector whose constructor may have thrown
addChild(children, ds) == pushBack(children, ds)

\* the while loop; children is the vector built so far, or the error thrown
RECURSIVE CompositeSelector_loadFormatLoop(_, _, _)
CompositeSelector_loadFormatLoop(format, i, children) ==
    IF ~children.ok \/ i >= Len(format)
    THEN children
    ELSE CompositeSelector_loadFormatLoop(format, i + 1,
                                          addChild(children.val, newChild(get(format, i))))

CompositeSelector_loadFormat(format) ==
    CompositeSelector_loadFormatLoop(format, 0, Ok(<<>>))

newRootSelector(children) ==
    IF children.ok THEN Ok(RootSelector(children.val)) ELSE children

\* RootSelector::RootSelector(format)
RootSelector_new(format) == newRootSelector(CompositeSelector_loadFormat(format))

----------------------------------------------------------------------------
(* The source list: a map from the registered port names to PortSource     *)
(* objects, each with the Bottle it caches and the state of its port.      *)

PortSource(data, port) == [data |-> data, port |-> port]

\* SourceList::hasSource
hasSource(sl, name) == name \in DOMAIN sl

\* SourceList::getSource(name).getData()
getSource(sl, name) ==
    IF ~hasSource(sl, name)
    THEN Err("Attempt to retrieve inexistent source.")
    ELSE Ok(sl[name].data)

----------------------------------------------------------------------------
(* Selection.  Every select operator yields Ok(the output Bottle after the *)
(* call) or the error that the call throws.                                *)

\* IndexSelector::addBottle
RECURSIVE addBottleLoop(_, _, _)
addBottleLoop(out, in, i) ==
    IF i < Len(in) THEN addBottleLoop(add(out, get(in, i)), in, i + 1) ELSE out

\* variant of addBottle that adds the record as one nested element
addBottle_nested(out, in) == add(out, ListV(in))

addBottle(out, in) == addBottleLoop(out, in, 0)

\* IndexSelector::selectRecursive: dim is the position of the iterator `it`
\* in this->indices (1 = begin), so that after it++ the test
\* it == indices.end() reads dim + 1 > Len(indices).
RECURSIVE selectRecursive(_, _, _, _)

\* variant of the loop body that adds a nested element without unwrapping it
selectIndex_noUnwrap(self, out, in, dim, idx) ==
    IF dim + 1 > Len(self.indices)
    THEN Ok(add(out, get(in, idx)))
    ELSE IF ~isList(get(in, idx))
         THEN Err("Cannot index non-list type")
         ELSE selectRecursive(self, out, asList(get(in, idx)), dim + 1)

\* variant of the loop body that descends without looking at the type
selectIndex_noTypeCheck(self, out, in, dim, idx) ==
    IF dim + 1 > Len(self.indices)
    THEN IF isList(get(in, idx))
         THEN Ok(addBottle(out, asList(get(in, idx))))
         ELSE Ok(add(out, get(in, idx)))
    ELSE selectRecursive(self, out, asList(get(in, idx)), dim + 1)

\* the body of the for loop, for the index idx = *it2 - 1
selectIndex(self, out, in, dim, idx) ==
    IF dim + 1 > Len(self.indices)
    THEN IF isList(get(in, idx))
         THEN Ok(addBottle(out, asList(get(in, idx))))
         ELSE Ok(add(out, get(in, idx)))
    ELSE IF ~isList(get(in, idx))
         THEN Err("Cannot index non-list type")
         ELSE selectRecursive(self, out, asList(get(in, idx)), dim + 1)

\* variant of the for loop that takes the indices as 0-based positions
RECURSIVE selectIndices_zeroBased(_, _, _, _, _)
selectIndices_zeroBased(self, out, in, dim, it2) ==
    IF ~out.ok \/ it2 > Len(self.indices[dim])
    THEN out
    ELSE selectIndices_zeroBased(self, selectIndex(self, out.val, in, dim, self.indices[dim][it2]),
                                 in, dim, it2 + 1)

\* variant of the for loop that walks the indices from the last to the first
RECURSIVE selectIndices_backwards(_, _, _, _, _)
selectIndices_backwards(self, out, in, dim, it2) ==
    IF ~out.ok \/ it2 > Len(self.indices[dim])
    THEN out
    ELSE selectIndices_backwards(
             self,
             selectIndex(self, out.val, in, dim,
                         self.indices[dim][Len(self.indices[dim]) + 1 - it2] - 1),
             in, dim, it2 + 1)

\* the for loop over it2; out is the output Bottle so far, or the error thrown
RECURSIVE selectIndices(_, _, _, _, _)
selectIndices(self, out, in, dim, it2) ==
    IF ~out.ok \/ it2 > Len(self.indices[dim])
    THEN out
    ELSE selectIndices(self, selectIndex(self, out.val, in, dim, self.indices[dim][it2] - 1),
                       in, dim, it2 + 1)

selectRecursive(self, out, in, dim) == selectIndices(self, Ok(out), in, dim, 1)

\* IndexSelector::select, given what sl.getSource(this->name).getData() yields
selectFrom(self, bot, data) ==
    IF ~data.ok THEN data
    ELSE IF Len(self.indices) = 0
    THEN Ok(addBottle(bot, data.val))
    ELSE selectRecursive(self, bot, data.val, 1)

\* IndexSelector::select
IndexSelector_select(self, bot, sl) == selectFrom(self, bot, getSource(sl, self.name))

\* DataSelector::select, dispatched on the class of the selector
RECURSIVE select(_, _, _)

\* the loop over this->children of CompositeSelector::select and
\* RootSelector::select; bot is the Bottle filled so far, or the error thrown
RECURSIVE selectChildren(_, _, _, _)
selectChildren(children, i, bot, sl) ==
    IF ~bot.ok \/ i > Len(children)
    THEN bot
    ELSE selectChildren(children, i + 1, select(children[i], bot.val, sl), sl)

\* bot with its last element, the list that addList added, filled as bot2
withLast(bot, bot2) ==
    IF bot2.ok THEN Ok([bot EXCEPT ![Len(bot)] = ListV(bot2.val)]) ELSE bot2

\* CompositeSelector::select, given bot after bot.addList()
selectInto(self, bot, sl) ==
    withLast(bot, selectChildren(self.children, 1, Ok(asList(bot[Len(bot)])), sl))

\* variant of CompositeSelector::select without the call of addList
CompositeSelector_select_unwrapped(self, bot, sl) ==
    selectChildren(self.children, 1, Ok(bot), sl)

\* CompositeSelector::select
CompositeSelector_select(self, bot, sl) == selectInto(self, addList(bot), sl)

\* RootSelector::select
RootSelector_select(self, bot, sl) == selectChildren(self.children, 1, Ok(bot), sl)

select(self, bot, sl) ==
    CASE self.t = "index"     -> IndexSelector_select(self, bot, sl)
      [] self.t = "composite" -> CompositeSelector_select(self, bot, sl)
      [] self.t = "root"      -> RootSelector_select(self, bot, sl)

\* CompositeSelector::declareSources / IndexSelector::declareSources: the
\* names handed to SourceList::addSource, in call order
RECURSIVE declareSources(_)

RECURSIVE declareChildren(_, _)
\* variant of the loop that stops after the first child
declareChildren_firstOnly(children, i) ==
    IF i > Len(children) THEN <<>> ELSE declareSources(children[i])

declareChildren(children, i) ==
    IF i > Len(children) THEN <<>>
    ELSE declareSources(children[i]) \o declareChildren(children, i + 1)

declareSources(self) ==
    IF self.t = "index" THEN <<self.name>> ELSE declareChildren(self.children, 1)

----------------------------------------------------------------------------
(* std::map<std::string, PortSource*> iterates in the order of its keys.   *)

Alphabet == <<" ", "+", ",", "-", "/", "0", "1", "2", "3", "4", "5", "6", "7",
              "8", "9", ":", "[", "]", "a", "b", "x">>

charCode(c) == CHOOSE i \in 1..Len(Alphabet) : Alphabet[i] = c

\* std::string::operator<
RECURSIVE stringLess(_, _)
stringLess(a, b) ==
    IF b = <<>> THEN FALSE
    ELSE IF a = <<>> THEN TRUE
    ELSE IF charCode(Head(a)) # charCode(Head(b))
    THEN charCode(Head(a)) < charCode(Head(b))
    ELSE stringLess(Tail(a), Tail(b))

\* the keys of a map in iteration order
RECURSIVE mapOrder(_)
mapOrder(keys) ==
    IF keys = {} THEN <<>>
    ELSE LET first == CHOOSE a \in keys : \A b \in keys \ {a} : stringLess(a, b)
         IN  <<first>> \o mapOrder(keys \ {first})

----------------------------------------------------------------------------
(* The desired period, a double: a rational num/den or +infinity.          *)

Period(num, den) == [inf |-> FALSE, num |-> num, den |-> den]
Infinity         == [inf |-> TRUE,  num |-> 1,   den |-> 0]

\* the default of the constructor: desiredPeriod(0.1)
DefaultPeriod == Period(1, 10)

\* the double 1. / f
inverse(f) ==
    IF f = 0 THEN Infinity
    ELSE IF f > 0 THEN Period(1, f)
    ELSE Period(-1, 0 - f)

\* MergeModule::setDesiredPeriod: the new value of desiredPeriod
setDesiredPeriod(p) == p

\* MergeModule::setFrequency: the new value of desiredPeriod, or the error
setFrequency(f) ==
    IF f <= 0
    THEN Err("Frequency must be larger than 0")
    ELSE Ok(setDesiredPeriod(inverse(f)))

----------------------------------------------------------------------------
(* Declaring sources.  The network decides, for each port name, whether   *)
(* the name resolves (valid) and whether the connection succeeds          *)
(* (reachable).                                                            *)

Connection(up, full, msg) == [connected |-> up, full |-> full, msg |-> msg]

extend(f, key, val) == [x \in DOMAIN f \cup {key} |-> IF x = key THEN val ELSE f[x]]

\* variant of SourceList::addSource that does not ask hasSource
addSource_always(reg, name, valid, reachable) ==
    IF name \in valid
    THEN [ok |-> TRUE, err |-> "",
          sl |-> extend(reg.sl, name, PortSource(<<>>, "open")),
          net |-> extend(reg.net, name, Connection(name \in reachable, FALSE, <<>>))]
    ELSE [ok |-> FALSE, err |-> "Cannot find requested port",
          sl |-> extend(reg.sl, name, PortSource(<<>>, "open")),
          net |-> extend(reg.net, name, Connection(FALSE, FALSE, <<>>))]

\* SourceList::addSource with PortSource::PortSource and PortSource::connect;
\* the result of Network::connect is not looked at
addSource(reg, name, valid, reachable) ==
    IF hasSource(reg.sl, name)
    THEN reg
    ELSE LET sl1 == extend(reg.sl, name, PortSource(<<>>, "open"))
         IN  IF name \in valid
             THEN [ok |-> TRUE, err |-> "", sl |-> sl1,
                   net |-> extend(reg.net, name, Connection(name \in reachable, FALSE, <<>>))]
             ELSE [ok |-> FALSE, err |-> "Cannot find requested port", sl |-> sl1,
                   net |-> extend(reg.net, name, Connection(FALSE, FALSE, <<>>))]

\* DataSelector::declareSources on the source list: addSource for every
\* name in call order, up to the first one that throws
RECURSIVE addSources(_, _, _, _, _)
addSources(reg, names, i, valid, reachable) ==
    IF i > Len(names) \/ ~reg.ok
    THEN reg
    ELSE addSources(addSource(reg, names[i], valid, reachable), names, i + 1, valid, reachable)

NoSources == [n \in {} |-> PortSource(<<>>, "open")]

NoRegistry == [ok |-> TRUE, err |-> "", sl |-> NoSources, net |-> NoSources]

\* every port of the source list put in the given state
\* (SourceList::interrupt, SourceList::close)
setPorts(sl, st) == [n \in DOMAIN sl |-> PortSource(sl[n].data, st)]

----------------------------------------------------------------------------
(* The inputs: the formats given on the command line, the records the      *)
(* producers send, the frequencies given as option and as command.         *)

NameA == <<"/", "a">>
NameB == <<"/", "b">>

\* --format "(/a)"
FmtAll == ListV(<<StrV(<<"/", "a">>)>>)
\* --format "(/a[2,1,2])"
FmtPick == ListV(<<StrV(<<"/", "a", "[", "2", ",", "1", ",", "2", "]">>)>>)
\* --format "(/a[1-2])"
FmtRange == ListV(<<StrV(<<"/", "a", "[", "1", "-", "2", "]">>)>>)
\* --format "(/a[5])"
FmtBeyond == ListV(<<StrV(<<"/", "a", "[", "5", "]">>)>>)
\* --format "(/a[0,1])"
FmtZero == ListV(<<StrV(<<"/", "a", "[", "0", ",", "1", "]">>)>>)
\* --format "(/a[1][2])"
FmtTwoDims == ListV(<<StrV(<<"/", "a", "[", "1", "]", "[", "2", "]">>)>>)
\* --format "(/a[1-2][2,1])"
FmtGrid == ListV(<<StrV(<<"/", "a", "[", "1", "-", "2", "]", "[", "2", ",", "1", "]">>)>>)
\* --format "(/a (/a[1] (/a[2])))"
FmtNested == ListV(<<StrV(<<"/", "a">>),
                     ListV(<<StrV(<<"/", "a", "[", "1", "]">>), ListV(<<StrV(<<"/", "a", "[", "2", "]">>)>>)>>)>>)
\* --format "(/b[1] /a (/b))"
FmtTwoSources == ListV(<<StrV(<<"/", "b", "[", "1", "]">>), StrV(<<"/", "a">>), ListV(<<StrV(<<"/", "b">>)>>)>>)
\* --format "(/a[5-2])", "(/a[1)", "(/a[1[2]])", "(/a[x])", "(/a[1a])",
\* "(/a[1-2-3])", "(42)", "()"
FmtBackwards == ListV(<<StrV(<<"/", "a", "[", "5", "-", "2", "]">>)>>)
FmtUnclosed  == ListV(<<StrV(<<"/", "a", "[", "1">>)>>)
FmtNestedBrackets == ListV(<<StrV(<<"/", "a", "[", "1", "[", "2", "]", "]">>)>>)
FmtLetter    == ListV(<<StrV(<<"/", "a", "[", "x", "]">>)>>)
FmtTrailing  == ListV(<<StrV(<<"/", "a", "[", "1", "a", "]">>)>>)
FmtDoubleDash == ListV(<<StrV(<<"/", "a", "[", "1", "-", "2", "-", "3", "]">>)>>)
FmtNumber    == ListV(<<IntV(42)>>)
FmtEmpty     == ListV(<<>>)
\* --format /a
FmtNoList    == StrV(<<"/", "a">>)

Formats == {FmtAll, FmtPick, FmtRange, FmtBeyond, FmtZero, FmtTwoDims, FmtGrid,
            FmtNested, FmtTwoSources, FmtBackwards, FmtUnclosed, FmtNestedBrackets,
            FmtLetter, FmtTrailing, FmtDoubleDash, FmtNumber, FmtEmpty, FmtNoList, NullValue}

\* the records the producers send:
\* (10 20 30), ((10 11) (20 21)), (7 (8 (9)))
RecFlat   == <<IntV(10), IntV(20), IntV(30)>>
RecPairs  == <<ListV(<<IntV(10), IntV(11)>>), ListV(<<IntV(20), IntV(21)>>)>>
RecDeep   == <<IntV(7), ListV(<<IntV(8), ListV(<<IntV(9)>>)>>)>>

Records == {RecFlat, RecPairs, RecDeep}

\* --frequency on the command line (NullValue: not given)
FrequencyOptions == {NullValue, IntV(5), IntV(0)}

\* the commands of the terminal / RPC port
VocabHelp == Vocab(<<"h", "e", "l", "p">>)
VocabInfo == Vocab(<<"i", "n", "f", "o">>)
VocabFreq == Vocab(<<"f", "r", "e", "q">>)
VocabStat == Vocab(<<"s", "t", "a", "t">>)

Commands == {<<VocabHelp>>, <<VocabInfo>>, <<VocabFreq>>,
             <<VocabFreq, IntV(5)>>, <<VocabFreq, IntV(0)>>,
             <<VocabFreq, IntV(-2)>>, <<VocabStat>>}

\* the number of records the output port takes before the model stops the loop
MaxOutput == 1

----------------------------------------------------------------------------
(* The module.                                                             *)

\* a reply Bottle (its strings) and the value respond returns with it
Reply(msgs, success) == [msgs |-> msgs, success |-> success]

\* the machine of the training module
Machine(wrapped, fed, trained) == [wrapped |-> wrapped, fed |-> fed, trained |-> trained]

\* TrainProcessor::TrainProcessor: the sample stream starts enabled
TrainProcessor_enabled == TRUE

\* the training module as constructed: no machine, no listener
TrainInit ==
    /\ trainState = "Unconfigured"
    /\ enabled = TrainProcessor_enabled
    /\ machine = Machine(FALSE, 0, FALSE)
    /\ listeners = <<>>
    /\ raised = 0
    /\ model_out = 0
    /\ reply = Reply(<<>>, FALSE)

\* positionDirectControlThread::positionDirectControlThread
ThreadInit ==
    /\ threadState = "Constructed"
    /\ suspended = TRUE
    /\ command_port = <<>>
    /\ targets = 0
    /\ prev_targets = 0
    /\ encoders = 0
    /\ joint = 0
    /\ positions = <<>>

\* the three programs before they are started
Init ==
    /\ TrainInit
    /\ ThreadInit
    /\ state = "Unconfigured"
    /\ dataSelector = NoSelector
    /\ sourceMap = NoSources
    /\ network = NoSources
    /\ outputPort = "unopened"
    /\ desiredPeriod = DefaultPeriod
    /\ pc = "idle"
    /\ it = <<>>
    /\ output = <<>>
    /\ lastError = ""
    /\ readOk = FALSE
    /\ exitStatus = <<>>

\* MergeModule::configure: what it returns ("true", "false") or that it
\* throws ("throw"), and the members as it leaves them
Unconfigured == [ret |-> "false", err |-> "", sel |-> NoSelector, sl |-> NoSources,
                 net |-> NoSources, period |-> DefaultPeriod, out |-> "unopened"]

\* variant in which configure reports the error and returns true
thrown_returnsTrue(c, err) == [c EXCEPT !.ret = "true", !.err = err]

thrown(c, err) == [c EXCEPT !.ret = "throw", !.err = err]

\* from the frequency option on: freq is what setFrequency yields
configureFrequency(c, freq) ==
    IF ~freq.ok THEN thrown(c, freq.err)
    ELSE [c EXCEPT !.ret = "true", !.period = freq.val, !.out = "open"]

\* after declareSources: reg is the source list it leaves
configureSources(c, opt, reg) ==
    IF ~reg.ok THEN thrown([c EXCEPT !.sl = reg.sl, !.net = reg.net], reg.err)
    ELSE configureFrequency([c EXCEPT !.sl = reg.sl, !.net = reg.net],
                            IF isInt32(opt.frequency)
                            THEN setFrequency(asFloat64(opt.frequency))
                            ELSE Ok(DefaultPeriod))

\* after new RootSelector: root is the selector, or the error thrown
configureFormat(opt, root, valid, reachable) ==
    IF ~root.ok THEN thrown(Unconfigured, root.err)
    ELSE configureSources([Unconfigured EXCEPT !.sel = root.val], opt,
                          addSources(NoRegistry, declareSources(root.val), 1,
                                     valid, reachable))

configure(opt, valid, reachable) ==
    IF opt.help
    THEN Unconfigured
    ELSE IF opt.format = NullValue
    THEN [Unconfigured EXCEPT !.err = "Please supply a format!"]
    ELSE IF ~isList(opt.format)
    THEN thrown(Unconfigured, "The format must be a list!")
    ELSE configureFormat(opt, RootSelector_new(asList(opt.format)), valid, reachable)

\* main up to the end of MergeModule::configure: RFModule::runModule returns 1
\* when configure returns false; the exception is on its way to the catch
\* clauses of main when configure throws; otherwise the periodic loop starts
Configure(opt, valid, reachable) ==
    LET c == configure(opt, valid, reachable)
    IN  /\ state = "Unconfigured"
        /\ dataSelector' = c.sel
        /\ network' = c.net
        /\ desiredPeriod' = c.period
        /\ lastError' = c.err
        /\ IF c.ret = "true"
           THEN /\ state' = "Running"
                /\ sourceMap' = c.sl
                /\ outputPort' = c.out
                /\ exitStatus' = <<>>
           ELSE IF c.ret = "throw"
           THEN /\ state' = "Failed"
                /\ sourceMap' = c.sl
                /\ outputPort' = c.out
                /\ exitStatus' = <<>>
           ELSE /\ state' = "Exited"
                /\ sourceMap' = c.sl
                /\ outputPort' = c.out
                /\ exitStatus' = <<1>>
        /\ UNCHANGED <<trainVars, threadVars, pc, it, output, readOk>>

\* the catch clauses of main: the error is reported, MergeModule::close runs
\* and main returns 1
MainCatch ==
    /\ state = "Failed"
    /\ state' = "Exited"
    /\ sourceMap' = setPorts(sourceMap, "closed")
    /\ outputPort' = "closed"
    /\ exitStatus' = <<1>>
    /\ UNCHANGED <<trainVars, threadVars, dataSelector, network, desiredPeriod, pc, it, output, lastError,
                   readOk>>

\* MergeModule::updateModule up to the call of SourceList::update
TickStart ==
    /\ state = "Running"
    /\ pc = "idle"
    /\ Len(output) < MaxOutput
    /\ it' = mapOrder(DOMAIN sourceMap)
    /\ pc' = IF DOMAIN sourceMap = {} THEN "select" ELSE "update"
    /\ UNCHANGED <<trainVars, threadVars, state, dataSelector, sourceMap, network, outputPort,
                   desiredPeriod, output, lastError, readOk, exitStatus>>

\* Port::read can return: with the message waiting on the connection, or
\* with nothing once the port is interrupted or closed; otherwise it waits
canRead(name) == sourceMap[name].port # "open" \/ network[name].full

\* variant of PortSource::update in which a read that brings nothing
\* empties the Bottle
update_clearsCache(name) == network[name].msg

\* PortSource::update, the Bottle in PortSource::data after port.read(data)
update(name) ==
    IF sourceMap[name].port = "open" THEN network[name].msg ELSE sourceMap[name].data

\* variant of SourceList::update that leaves the loop after one source
SourceList_update_firstOnly ==
    /\ pc = "update"
    /\ canRead(Head(it))
    /\ sourceMap' = [sourceMap EXCEPT ![Head(it)].data = update(Head(it))]
    /\ network' = IF sourceMap[Head(it)].port = "open"
                  THEN [network EXCEPT ![Head(it)].full = FALSE, ![Head(it)].msg = <<>>]
                  ELSE network
    /\ readOk' = (sourceMap[Head(it)].port = "open")
    /\ it' = <<>>
    /\ pc' = "select"
    /\ UNCHANGED <<trainVars, threadVars, state, dataSelector, outputPort, desiredPeriod, output,
                   lastError, exitStatus>>

\* SourceList::update: one pass of the loop, PortSource::update of *it
SourceList_update ==
    /\ pc = "update"
    /\ canRead(Head(it))
    /\ sourceMap' = [sourceMap EXCEPT ![Head(it)].data = update(Head(it))]
    /\ network' = IF sourceMap[Head(it)].port = "open"
                  THEN [network EXCEPT ![Head(it)].full = FALSE, ![Head(it)].msg = <<>>]
                  ELSE network
    /\ readOk' = (sourceMap[Head(it)].port = "open")
    /\ it' = Tail(it)
    /\ pc' = IF Tail(it) = <<>> THEN "select" ELSE "update"
    /\ UNCHANGED <<trainVars, threadVars, state, dataSelector, outputPort, desiredPeriod, output,
                   lastError, exitStatus>>

\* Port::write: the records on the output port after write(out); an
\* interrupted or closed port takes nothing
write(out) == IF outputPort = "open" THEN Append(output, out) ELSE output

\* variant of updateModule that writes the Bottle also after an exception
SelectAndWrite_writesOnError ==
    LET out == select(dataSelector, <<>>, sourceMap)
    IN  /\ pc = "select"
        /\ output' = write(out.val)
        /\ lastError' = out.err
        /\ pc' = "idle"
        /\ UNCHANGED <<trainVars, threadVars, state, dataSelector, sourceMap, network, outputPort,
                       desiredPeriod, it, readOk, exitStatus>>

\* MergeModule::updateModule from the construction of the Bottle out to
\* its return value true
SelectAndWrite ==
    LET out == select(dataSelector, <<>>, sourceMap)
    IN  /\ pc = "select"
        /\ output' = IF out.ok THEN write(out.val) ELSE output
        /\ lastError' = out.err
        /\ pc' = "idle"
        /\ UNCHANGED <<trainVars, threadVars, state, dataSelector, sourceMap, network, outputPort,
                       desiredPeriod, it, readOk, exitStatus>>

\* a producer sends a record to a source port it is connected to
Produce(name, rec) ==
    /\ state \in {"Running", "Interrupted"}
    /\ name \in DOMAIN network
    /\ network[name].connected
    /\ ~network[name].full
    /\ network' = [network EXCEPT ![name].full = TRUE, ![name].msg = rec]
    /\ UNCHANGED <<trainVars, threadVars, state, dataSelector, sourceMap, outputPort, desiredPeriod,
                   pc, it, output, lastError, readOk, exitStatus>>

\* MergeModule::respond: the new value of desiredPeriod
respond(cmd) ==
    IF asVocab32(get(cmd, 0)) = asVocab32(VocabFreq) /\ Len(cmd) > 1 /\ isInt32(get(cmd, 1))
    THEN setDesiredPeriod(inverse(asFloat64(get(cmd, 1))))
    ELSE desiredPeriod

\* variant of the command handler that forgets the declared sources
Respond_dropsSources(cmd) ==
    /\ state = "Running"
    /\ desiredPeriod' = respond(cmd)
    /\ sourceMap' = NoSources
    /\ UNCHANGED <<trainVars, threadVars, state, dataSelector, network, outputPort,
                   pc, it, output, lastError, readOk, exitStatus>>

\* a command arrives on the terminal or the RPC port
Respond(cmd) ==
    /\ state = "Running"
    /\ desiredPeriod' = respond(cmd)
    /\ UNCHANGED <<trainVars, threadVars, state, dataSelector, sourceMap, network, outputPort,
                   pc, it, output, lastError, readOk, exitStatus>>

\* RFModule::stopModule (signal or quit): the stop flag is set and
\* MergeModule::interruptModule runs
InterruptModule ==
    /\ state = "Running"
    /\ state' = "Interrupted"
    /\ sourceMap' = setPorts(sourceMap, "interrupted")
    /\ outputPort' = "interrupted"
    /\ UNCHANGED <<trainVars, threadVars, dataSelector, network, desiredPeriod, pc, it, output,
                   lastError, readOk, exitStatus>>

\* the end of RFModule::runModule: the loop has seen the stop flag,
\* MergeModule::close runs and main returns 0
Close ==
    /\ state = "Interrupted"
    /\ pc = "idle"
    /\ state' = "Exited"
    /\ sourceMap' = setPorts(sourceMap, "closed")
    /\ outputPort' = "closed"
    /\ exitStatus' = <<0>>
    /\ UNCHANGED <<trainVars, threadVars, dataSelector, network, desiredPeriod, pc, it, output, lastError,
                   readOk>>

Next ==
    \/ \E format \in Formats, frequency \in FrequencyOptions, help \in BOOLEAN,
          valid \in SUBSET {NameA, NameB}, reachable \in SUBSET {NameA, NameB} :
            Configure([help |-> help, format |-> format, frequency |-> frequency],
                      valid, reachable)
    \/ MainCatch
    \/ TickStart
    \/ SourceList_update
    \/ SelectAndWrite
    \/ \E name \in {NameA, NameB}, rec \in Records : Produce(name, rec)
    \/ \E cmd \in Commands : Respond(cmd)
    \/ InterruptModule
    \/ Close

Spec == Init /\ [][Next]_vars

\* the periodic thread and the thread that closes the module keep running
FairSpec == Spec /\ WF_vars(MainCatch \/ TickStart \/ SourceList_update \/ SelectAndWrite \/ Close)

----------------------------------------------------------------------------
(* Properties.                                                             *)

\* every selector of the tree below sel, sel included
RECURSIVE selectors(_)
selectors(sel) ==
    {sel} \cup UNION {selectors(sel.children[i]) : i \in 1..Len(sel.children)}

\* the IndexSelectors of the tree
leaves(sel) == {s \in selectors(sel) : s.t = "index"}

\* a Bottle and every Bottle nested in it
RECURSIVE subRecords(_)
subRecords(bot) ==
    {bot} \cup UNION {subRecords(asList(bot[i])) : i \in {j \in 1..Len(bot) : isList(bot[j])}}

\* the Bottles handed to select as the output built so far
Accumulators == {<<>>, <<IntV(1)>>, <<ListV(<<IntV(1)>>), IntV(2)>>}

\* the concatenation of a sequence of Bottles
RECURSIVE concatAll(_)
concatAll(bots) == IF bots = <<>> THEN <<>> ELSE Head(bots) \o concatAll(Tail(bots))

\* what each child adds to an empty Bottle, one after the other
contributions(children, sl) ==
    concatAll([i \in 1..Len(children) |-> select(children[i], <<>>, sl).val])

\* every child can be evaluated on its own
allSelect(children, sl) ==
    \A i \in 1..Len(children) : select(children[i], <<>>, sl).ok

Max(S) == CHOOSE x \in S : \A y \in S : y <= x

\* the number of list levels in a Bottle and below a selector
RECURSIVE depth(_)
depth(bot) ==
    IF \A i \in 1..Len(bot) : ~isList(bot[i]) THEN 0
    ELSE 1 + Max({depth(asList(bot[i])) : i \in {j \in 1..Len(bot) : isList(bot[j])}})

RECURSIVE formatDepth(_)
formatDepth(sel) ==
    IF \A i \in 1..Len(sel.children) : sel.children[i].t = "index" THEN 0
    ELSE 1 + Max({formatDepth(sel.children[i]) :
                    i \in {j \in 1..Len(sel.children) : sel.children[j].t = "composite"}})

\* no source caches a Bottle with a nested list
flatSources(sl) == \A n \in DOMAIN sl : \A i \in 1..Len(sl[n].data) : ~isList(sl[n].data[i])

\* C1: a tick whose select throws writes nothing to the output port, leaves
\* the module in the state it was in and only reports the error; the loop
\* is back where the next tick starts
C1_FailedTickIsSkipped ==
    [][(pc = "select" /\ pc' = "idle" /\ ~select(dataSelector, <<>>, sourceMap).ok)
        => (/\ output' = output
            /\ state' = state
            /\ exitStatus' = exitStatus
            /\ lastError' = select(dataSelector, <<>>, sourceMap).err
            /\ lastError' # ""
            /\ pc' = "idle")]_vars

C1_Witness ==
    /\ state = "Running"
    /\ pc = "idle"
    /\ lastError # ""
    /\ output = <<>>
    /\ \E n \in DOMAIN sourceMap : sourceMap[n].data # <<>>
    /\ ENABLED TickStart

\* C2: refreshAll never waits for a source: whenever the loop of
\* SourceList::update stands at a source, the read of that source can return
C2_RefreshNeverWaits ==
    pc = "update" => ENABLED SourceList_update

\* C3: a refresh of a source to which no new record has come leaves the
\* cached record of that source as it was and reports no error, and the
\* select that follows works on the cached records without changing them
C3_NoNewRecordKeepsCache ==
    [][/\ (pc = "update" /\ it' = Tail(it) /\ ~network[Head(it)].full)
            => (/\ sourceMap'[Head(it)].data = sourceMap[Head(it)].data
                /\ lastError' = lastError
                /\ ~readOk')
       /\ (pc = "select" /\ pc' = "idle")
            => (/\ sourceMap' = sourceMap
                /\ (select(dataSelector, <<>>, sourceMap).ok /\ outputPort = "open")
                      => output' = Append(output, contributions(dataSelector.children, sourceMap)))
      ]_vars

C3_Witness ==
    /\ pc = "select"
    /\ ~readOk
    /\ it = <<>>
    /\ DOMAIN sourceMap # {}
    /\ sourceMap[mapOrder(DOMAIN sourceMap)[Cardinality(DOMAIN sourceMap)]].data \in Records

\* C4: a frequency command with a value of zero or below leaves the period
\* as it was, so that the period is always finite and above zero
C4_PeriodFinitePositive ==
    /\ ~desiredPeriod.inf
    /\ desiredPeriod.num > 0
    /\ desiredPeriod.den > 0

\* C5: a leaf with an index path whose first index lies outside the cached
\* record of its source fails instead of adding a value to the output
C5_OutOfRangeFails ==
    \A leaf \in leaves(dataSelector), A \in Accumulators :
        (/\ leaf.indices # <<>>
         /\ hasSource(sourceMap, leaf.name)
         /\ sourceMap[leaf.name].data # <<>>
         /\ leaf.indices[1][1] \notin 1..Len(sourceMap[leaf.name].data))
        => ~IndexSelector_select(leaf, A, sourceMap).ok

\* C6: when select runs, a leaf without index path leaves the output as it
\* was, followed by the elements of the cached record in their order, each as its own element
C6_EmptyPathSplices ==
    pc = "select" =>
    \A leaf \in leaves(dataSelector), A \in Accumulators :
        (leaf.indices = <<>> /\ hasSource(sourceMap, leaf.name))
        => /\ IndexSelector_select(leaf, A, sourceMap).ok
           /\ IndexSelector_select(leaf, A, sourceMap).val = A \o sourceMap[leaf.name].data

C6_Witness ==
    /\ output = <<RecDeep>>
    /\ \E leaf \in leaves(dataSelector) : leaf.indices = <<>>
    /\ dataSelector.children = <<IndexSelector(NameA, <<>>)>>

\* the indices of a one-dimensional leaf all point at scalars of the record
scalarsInRange(leaf, data) ==
    /\ Len(leaf.indices) = 1
    /\ \A k \in 1..Len(leaf.indices[1]) :
          /\ leaf.indices[1][k] \in 1..Len(data)
          /\ ~isList(data[leaf.indices[1][k]])

\* C7: a leaf with one dimension i1..in, on a record whose indexed
\* elements are scalars in range, adds n elements, the k-th being the
\* element at the 1-based position ik, duplicates included
C7_OneDimensionInOrder ==
    \A leaf \in leaves(dataSelector), A \in Accumulators :
        (hasSource(sourceMap, leaf.name) /\ scalarsInRange(leaf, sourceMap[leaf.name].data))
        => /\ IndexSelector_select(leaf, A, sourceMap).ok
           /\ IndexSelector_select(leaf, A, sourceMap).val
                = A \o [k \in 1..Len(leaf.indices[1]) |->
                            sourceMap[leaf.name].data[leaf.indices[1][k]]]

C7_Witness ==
    /\ hasSource(sourceMap, NameA)
    /\ dataSelector.children = <<IndexSelector(NameA, <<<<2, 1, 2>>>>)>>
    /\ sourceMap[NameA].data = RecFlat
    /\ output = <<<<IntV(20), IntV(10), IntV(20)>>>>

\* C8: when select runs, at the last dimension an element that is a nested
\* record adds its
\* children one by one, each as it is, and a scalar adds itself
C8_LastDimensionUnwrapsOnce ==
    pc = "select" =>
    \A leaf \in leaves(dataSelector), A \in Accumulators :
        (leaf.indices # <<>> /\ hasSource(sourceMap, leaf.name))
        => \A S \in subRecords(sourceMap[leaf.name].data) : \A i \in 1..Len(S) :
              /\ selectIndex(leaf, A, S, Len(leaf.indices), i - 1).ok
              /\ selectIndex(leaf, A, S, Len(leaf.indices), i - 1).val
                   = A \o (IF isList(S[i]) THEN asList(S[i]) ELSE <<S[i]>>)

C8_Witness ==
    /\ hasSource(sourceMap, NameA)
    /\ sourceMap[NameA].data = RecDeep
    /\ output = <<<<IntV(8), ListV(<<IntV(9)>>), IntV(7), IntV(8), ListV(<<IntV(9)>>)>>>>

\* C9: when select runs, at a dimension that is not the last, a scalar at an
\* indexed position
\* in range makes select fail with the error for indexing a non-list
C9_InnerScalarFails ==
    pc = "select" =>
    \A leaf \in leaves(dataSelector), A \in Accumulators :
        (Len(leaf.indices) > 1 /\ hasSource(sourceMap, leaf.name))
        => /\ \A S \in subRecords(sourceMap[leaf.name].data) :
                \A i \in 1..Len(S), dim \in 1..(Len(leaf.indices) - 1) :
                    ~isList(S[i])
                    => /\ ~selectIndex(leaf, A, S, dim, i - 1).ok
                       /\ selectIndex(leaf, A, S, dim, i - 1).err = "Cannot index non-list type"
           /\ (/\ leaf.indices[1][1] \in 1..Len(sourceMap[leaf.name].data)
               /\ ~isList(sourceMap[leaf.name].data[leaf.indices[1][1]]))
              => /\ ~IndexSelector_select(leaf, A, sourceMap).ok
                 /\ IndexSelector_select(leaf, A, sourceMap).err = "Cannot index non-list type"

C9_Witness ==
    /\ hasSource(sourceMap, NameA)
    /\ dataSelector.children = <<IndexSelector(NameA, <<<<1>>, <<2>>>>)>>
    /\ sourceMap[NameA].data = RecFlat
    /\ pc = "idle"
    /\ lastError = "Cannot index non-list type"

\* C10: when select runs, a CompositeSelector adds one nested record that
\* holds what its
\* children add, in their order; the RootSelector adds what its children
\* add to the output itself; on records without nesting the output is as
\* deep as the format below the root
C10_CompositeNestsRootDoesNot ==
    pc = "select" =>
    /\ \A c \in selectors(dataSelector), A \in Accumulators :
          (c.t = "composite" /\ allSelect(c.children, sourceMap))
          => /\ select(c, A, sourceMap).ok
             /\ select(c, A, sourceMap).val = A \o <<ListV(contributions(c.children, sourceMap))>>
    /\ \A A \in Accumulators :
          (dataSelector.t = "root" /\ allSelect(dataSelector.children, sourceMap))
          => /\ select(dataSelector, A, sourceMap).ok
             /\ select(dataSelector, A, sourceMap).val
                  = A \o contributions(dataSelector.children, sourceMap)
             /\ flatSources(sourceMap)
                  => depth(contributions(dataSelector.children, sourceMap)) = formatDepth(dataSelector)

C10_Witness ==
    /\ hasSource(sourceMap, NameA)
    /\ \E c \in selectors(dataSelector) : c.t = "composite"
    /\ sourceMap[NameA].data = RecFlat
    /\ output = <<<<IntV(10), IntV(20), IntV(30),
                    ListV(<<IntV(10), ListV(<<IntV(20)>>)>>)>>>>


\* C11: a source that has received no record adds nothing to the output:
\* when select runs, every leaf bound to such a source, with or without
\* index path, leaves the output as it was and does not fail
C11_NoRecordNoContribution ==
    pc = "select"
    => \A leaf \in leaves(dataSelector), A \in Accumulators :
          (hasSource(sourceMap, leaf.name) /\ sourceMap[leaf.name].data = <<>>)
          => /\ IndexSelector_select(leaf, A, sourceMap).ok
             /\ IndexSelector_select(leaf, A, sourceMap).val = A

\* the source list and the connections as SourceList::addSource finds them
registry == [ok |-> TRUE, err |-> "", sl |-> sourceMap, net |-> network]

\* the names that occur in a sequence of names
distinctNames(names) == {names[i] : i \in 1..Len(names)}

\* the longest sequence of declare calls looked at
MaxDeclareCalls == 3

\* the sequences of declare calls
DeclareCalls == UNION {[1..n -> {NameA, NameB}] : n \in 0..MaxDeclareCalls}

\* C12: addSource of a name that is registered changes nothing, neither the
\* source nor its connection; after the calls of declareSources the source
\* list holds one source per distinct name of the format, and a sequence of
\* calls made twice leaves what it left when made once
C12_DeclareIdempotent ==
    /\ \A n \in DOMAIN sourceMap : \A valid, reachable \in SUBSET {NameA, NameB} :
          addSource(registry, n, valid, reachable) = registry
    /\ state \in {"Running", "Interrupted"}
          => /\ DOMAIN sourceMap = distinctNames(declareSources(dataSelector))
             /\ DOMAIN network = DOMAIN sourceMap
    /\ state = "Unconfigured"
          => \A names \in DeclareCalls :
                /\ DOMAIN addSources(NoRegistry, names, 1, {NameA, NameB}, {NameA}).sl
                     = distinctNames(names)
                /\ addSources(NoRegistry, names \o names, 1, {NameA, NameB}, {NameA})
                     = addSources(NoRegistry, names, 1, {NameA, NameB}, {NameA})

C12_Witness ==
    /\ state = "Running"
    /\ Len(declareSources(dataSelector)) = 3
    /\ DOMAIN sourceMap = {NameA}
    /\ sourceMap[NameA].data = RecFlat

\* C13: a declare that returns normally has established the connection:
\* once the module runs, every declared source is connected to its producer
C13_DeclaredMeansConnected ==
    state = "Running" => \A n \in DOMAIN network : network[n].connected


\* C14: whenever a tick can run, every name bound to a leaf of the tree is
\* in the source list, so that getSource does not throw during select
C14_LeavesAreDeclared ==
    /\ state \in {"Running", "Interrupted"}
          => \A leaf \in leaves(dataSelector) :
                /\ hasSource(sourceMap, leaf.name)
                /\ getSource(sourceMap, leaf.name).ok
    /\ lastError # "Attempt to retrieve inexistent source."
    /\ pc = "select"
          => select(dataSelector, <<>>, sourceMap).err # "Attempt to retrieve inexistent source."

C14_Witness ==
    /\ pc = "select"
    /\ Cardinality(leaves(dataSelector)) = 3
    /\ DOMAIN sourceMap = {NameA, NameB}
    /\ select(dataSelector, <<>>, sourceMap).ok


\* C15: the module runs only with a parsed tree that is not empty: with no
\* format, or with a format that is an empty list, configure does not
\* succeed and no tick runs
C15_RunningHasNonEmptyTree ==
    /\ state \in {"Running", "Interrupted"}
          => (dataSelector.t = "root" /\ dataSelector.children # <<>>)
    /\ pc # "idle" => dataSelector.children # <<>>

\* C16: an error in the format or in declaring a source leaves configure as
\* an exception; from there the module never runs, no tick starts, nothing
\* is written, and main reports the error and returns a status that is not 0
C16_StartupErrorAborts ==
    [][/\ (state = "Unconfigured" /\ lastError' \notin {"", "Please supply a format!"})
            => (/\ state' = "Failed"
                /\ outputPort' = "unopened"
                /\ exitStatus' = <<>>)
       /\ (state = "Unconfigured" /\ state' = "Running") => lastError' = ""
       /\ (state = "Failed")
            => (pc = "idle" /\ output = <<>> /\ lastError # "" /\ ~ENABLED TickStart)
       /\ (state = "Failed" \/ state = "Exited")
            => (/\ state' = "Exited"
                /\ exitStatus' = <<1>>
                /\ output' = output
                /\ pc' = pc
                /\ lastError' = lastError)
      ]_vars

C16_Witness ==
    /\ state = "Exited"
    /\ exitStatus = <<1>>
    /\ lastError = "Cannot find requested port"
    /\ output = <<>>
    /\ DOMAIN sourceMap # {}


\* C17: on every way to shutdown a source port and the output port are
\* closed only after they have been interrupted
C17_InterruptBeforeClose ==
    [][/\ \A n \in DOMAIN sourceMap' :
             (sourceMap'[n].port = "closed")
             => (n \in DOMAIN sourceMap /\ sourceMap[n].port \in {"interrupted", "closed"})
       /\ (outputPort' = "closed") => (outputPort \in {"unopened", "interrupted", "closed"})
       /\ (state' = "Exited" /\ exitStatus' = <<0>>)
             => (outputPort' = "closed" /\ \A n \in DOMAIN sourceMap' : sourceMap'[n].port = "closed")
      ]_vars

\* C18: a tick refreshes every declared source once, in one pass, then fills
\* an empty Bottle by one select of the root and writes it once; what is
\* written is what the tree selects from the records cached after the pass
C18_TickOrder ==
    [][/\ (pc = "idle" /\ pc' # "idle")
            => (/\ distinctNames(it') = DOMAIN sourceMap
                /\ Len(it') = Cardinality(DOMAIN sourceMap)
                /\ sourceMap' = sourceMap
                /\ (pc' = "select") = (it' = <<>>))
       /\ (pc = "update")
            => (/\ it # <<>>
                /\ IF it' # it
                   THEN /\ it' = Tail(it)
                        /\ \A n \in DOMAIN sourceMap \ {Head(it)} : sourceMap'[n] = sourceMap[n]
                        /\ pc' = IF it' = <<>> THEN "select" ELSE "update"
                   ELSE /\ pc' = "update"
                        /\ \A n \in DOMAIN sourceMap : sourceMap'[n].data = sourceMap[n].data)
       /\ (pc = "select")
            => (/\ it = <<>>
                /\ \A n \in DOMAIN sourceMap : sourceMap'[n].data = sourceMap[n].data
                /\ pc' = "idle"
                     => output' = IF select(dataSelector, <<>>, sourceMap).ok /\ outputPort = "open"
                                  THEN Append(output, select(dataSelector, <<>>, sourceMap).val)
                                  ELSE output)
       /\ (output' # output)
            => (pc = "select" /\ pc' = "idle" /\ Len(output') = Len(output) + 1)
      ]_vars

C18_Witness ==
    /\ pc = "idle"
    /\ DOMAIN sourceMap = {NameA, NameB}
    /\ sourceMap[NameA].data = RecDeep
    /\ sourceMap[NameB].data = RecFlat
    /\ output = <<<<IntV(10), IntV(7), ListV(<<IntV(8), ListV(<<IntV(9)>>)>>),
                    ListV(<<IntV(10), IntV(20), IntV(30)>>)>>>>


\* index numbers as they are written and the value they stand for
Numbers == {[s |-> <<"1">>, n |-> 1], [s |-> <<"2">>, n |-> 2],
            [s |-> <<"3">>, n |-> 3], [s |-> <<"1", "2">>, n |-> 12]}

\* the tokens of a bracketed group: the text, and the indices or the error
\* the text stands for
single(a) == [s |-> a.s, ok |-> TRUE, idx |-> <<a.n>>, err |-> ""]
range(a, b) ==
    [s |-> a.s \o <<"-">> \o b.s,
     ok |-> a.n <= b.n,
     idx |-> IF a.n <= b.n THEN [k \in 1..(b.n - a.n + 1) |-> a.n + k - 1] ELSE <<>>,
     err |-> IF a.n <= b.n THEN "" ELSE "End of range before start of range"]
chain(a, b, c) ==
    [s |-> a.s \o <<"-">> \o b.s \o <<"-">> \o c.s,
     ok |-> FALSE, idx |-> <<>>, err |-> "Illegal range specification"]

Tokens ==
    {single(a) : a \in Numbers}
    \cup {range(a, b) : a, b \in Numbers}
    \cup {chain(a, b, c) : a, b, c \in {x \in Numbers : x.n <= 2}}

\* "/a[t1][t2]" for two texts
twoGroups(t1, t2) == NameA \o <<"[">> \o t1 \o <<"]", "[">> \o t2 \o <<"]">>

\* C19: in a bracketed group every token between commas gives its indices
\* in order: a number gives itself, a-b with a <= b gives a, a+1, ..., b,
\* a-b with a > b is a range-order error, more than one '-' is a malformed
\* range; every group is one dimension, in the order of the groups
C19_GroupParsing ==
    state = "Unconfigured"
    => /\ \A t \in Tokens :
             /\ loadIndices(<<>>, t.s).ok = t.ok
             /\ loadIndices(<<>>, t.s).err = t.err
             /\ t.ok => loadIndices(<<>>, t.s).val = <<t.idx>>
       /\ \A t1, t2 \in Tokens :
             /\ loadIndices(<<>>, t1.s \o <<",">> \o t2.s).ok = (t1.ok /\ t2.ok)
             /\ loadIndices(<<>>, t1.s \o <<",">> \o t2.s).err
                  = (IF t1.ok THEN t2.err ELSE t1.err)
             /\ (t1.ok /\ t2.ok)
                  => /\ loadIndices(<<>>, t1.s \o <<",">> \o t2.s).val = <<t1.idx \o t2.idx>>
                     /\ IndexSelector_loadFormat(twoGroups(t1.s, t2.s)).ok
                     /\ IndexSelector_loadFormat(twoGroups(t1.s, t2.s)).val
                          = IndexSelector(NameA, <<t1.idx, t2.idx>>)

C19_Witness ==
    /\ state = "Running"
    /\ dataSelector = RootSelector(<<IndexSelector(NameA, <<<<1, 2>>, <<2, 1>>>>)>>)

\* texts between brackets that are not made of digits only
BadTokens == {<<"1", "a">>, <<"x">>, <<>>, <<"1", " ">>, <<" ", "1">>, <<"+", "1">>}

\* C20: an index token that is not made of digits only makes the parsing of
\* the port specification fail
C20_NonDigitTokenRejected ==
    state = "Unconfigured"
    => \A tok \in BadTokens :
          ~IndexSelector_loadFormat(NameA \o <<"[">> \o tok \o <<"]">>).ok


\* the tokens that stand for indices
GoodTokens == {t \in Tokens : t.ok}

\* "/a[t1", "/a[t1][t2", "/a[t1[t2]]" and "/a[t1[t2]"
unclosed(t1) == NameA \o <<"[">> \o t1
unclosedSecond(t1, t2) == NameA \o <<"[">> \o t1 \o <<"]", "[">> \o t2
openedTwice(t1, t2) == NameA \o <<"[">> \o t1 \o <<"[">> \o t2 \o <<"]", "]">>
openedTwiceOneClose(t1, t2) == NameA \o <<"[">> \o t1 \o <<"[">> \o t2 \o <<"]">>

\* C21: parsing a port specification fails with a syntax error when a '['
\* has no matching ']' and when a second '[' occurs before the ']' that
\* closes the previous group; no leaf, and so no tree, is produced
C21_BracketErrors ==
    state = "Unconfigured"
    => /\ \A t1 \in GoodTokens :
             /\ IndexSelector_loadFormat(unclosed(t1.s)) = Err("Missing closing bracket ']'")
             /\ ~RootSelector_new(<<StrV(NameA), StrV(unclosed(t1.s))>>).ok
             /\ \A t2 \in GoodTokens :
                   /\ IndexSelector_loadFormat(unclosedSecond(t1.s, t2.s))
                        = Err("Missing closing bracket ']'")
                   /\ ~IndexSelector_loadFormat(openedTwice(t1.s, t2.s)).ok
                   /\ ~IndexSelector_loadFormat(openedTwiceOneClose(t1.s, t2.s)).ok
                   /\ ~RootSelector_new(<<StrV(NameA), StrV(openedTwice(t1.s, t2.s))>>).ok
             /\ \A n \in Numbers :
                   /\ IndexSelector_loadFormat(openedTwice(t1.s, n.s))
                        = Err("Unexpected opening bracket '['")
                   /\ IndexSelector_loadFormat(openedTwiceOneClose(t1.s, n.s))
                        = Err("Unexpected opening bracket '['")

C21_Witness ==
    /\ state = "Exited"
    /\ exitStatus = <<1>>
    /\ dataSelector = NoSelector
    /\ lastError = "Unexpected opening bracket '['"


\* the elements of a format list, with the child each one stands for
FormatElements ==
    { [e |-> StrV(NameA), ok |-> TRUE, sel |-> IndexSelector(NameA, <<>>)],
      [e |-> StrV(NameB \o <<"[", "1", "]">>), ok |-> TRUE,
       sel |-> IndexSelector(NameB, <<<<1>>>>)],
      [e |-> ListV(<<StrV(NameA), ListV(<<>>)>>), ok |-> TRUE,
       sel |-> CompositeSelector(<<IndexSelector(NameA, <<>>), CompositeSelector(<<>>)>>)],
      [e |-> IntV(42), ok |-> FALSE, sel |-> NoSelector],
      [e |-> ListV(<<StrV(NameA), IntV(42)>>), ok |-> FALSE, sel |-> NoSelector] }

MaxElements == 3

FormatLists == UNION {[1..n -> FormatElements] : n \in 0..MaxElements}

\* C22: parsing a composite produces one child per element of the list, in
\* the order of the list: a string gives a leaf, a nested list gives a
\* composite parsed in the same way, and an element of any other kind (a
\* number) makes the whole parse fail
C22_OneChildPerElement ==
    state = "Unconfigured"
    => \A f \in FormatLists :
          LET parsed == CompositeSelector_loadFormat([i \in 1..Len(f) |-> f[i].e])
          IN  /\ parsed.ok = (\A i \in 1..Len(f) : f[i].ok)
              /\ parsed.ok => parsed.val = [i \in 1..Len(f) |-> f[i].sel]
              /\ (\E i \in 1..Len(f) : ~f[i].ok)
                    => parsed = Err("Unexpected token during parsing")

C22_Witness ==
    /\ state = "Running"
    /\ dataSelector = RootSelector(<<IndexSelector(NameB, <<<<1>>>>),
                                     IndexSelector(NameA, <<>>),
                                     CompositeSelector(<<IndexSelector(NameB, <<>>)>>)>>)


----------------------------------------------------------------------------
(* The text form of a tree (the reply to "info") and the reading of a text  *)
(* into a Bottle, as done for the value of --format.                        *)

\* std::string(indent, ' ')
spaces(indent) == [i \in 1..indent |-> " "]

\* operator<< of an int
RECURSIVE intToString(_)
intToString(n) ==
    IF n < 0 THEN <<"-">> \o intToString(0 - n)
    ELSE IF n < 10 THEN <<Digits[n + 1]>>
    ELSE intToString(n \div 10) \o <<Digits[(n % 10) + 1]>>

\* the inner loop of IndexSelector::toString: the indices from i2 on
RECURSIVE dimensionToString(_, _)
dimensionToString(idx, i2) ==
    IF i2 > Len(idx) THEN <<>>
    ELSE (IF i2 > 1 THEN <<",">> ELSE <<>>)
         \o intToString(idx[i2]) \o dimensionToString(idx, i2 + 1)

\* the outer loop of IndexSelector::toString: the dimensions from i1 on
RECURSIVE indicesToString(_, _)
indicesToString(indices, i1) ==
    IF i1 > Len(indices) THEN <<>>
    ELSE <<"[">> \o dimensionToString(indices[i1], 1) \o <<"]">>
         \o indicesToString(indices, i1 + 1)

\* IndexSelector::toString
IndexSelector_toString(self, indent) ==
    spaces(indent) \o self.name \o indicesToString(self.indices, 1) \o <<"\n">>

RECURSIVE toString(_, _)

\* the loop of CompositeSelector::toString over the children from i on
RECURSIVE childrenToString(_, _, _)
childrenToString(children, i, indent) ==
    IF i > Len(children) THEN <<>>
    ELSE toString(children[i], indent) \o childrenToString(children, i + 1, indent)

\* CompositeSelector::toString, inherited by RootSelector
CompositeSelector_toString(self, indent) ==
    spaces(indent) \o <<"(", "\n">>
    \o childrenToString(self.children, 1, indent + 2)
    \o spaces(indent) \o <<")", "\n">>

\* DataSelector::toString, dispatched on the class of the selector
toString(self, indent) ==
    IF self.t = "index" THEN IndexSelector_toString(self, indent)
    ELSE CompositeSelector_toString(self, indent)

\* the characters that end an element of a text
isSpace(ch) == ch \in {" ", "\t", "\n", "\r"}

allDigits(arg) == arg # <<>> /\ \A i \in 1..Len(arg) : isDigit(arg[i])

\* the text between the outer parentheses of a nested list
inner(arg) ==
    IF arg[Len(arg)] = ")" THEN SubSeq(arg, 2, Len(arg) - 1) ELSE SubSeq(arg, 2, Len(arg))

RECURSIVE fromString(_)

\* one element of a text: a nested list, a number or a string
smartAdd(arg) ==
    IF arg[1] = "(" THEN ListV(fromString(inner(arg)))
    ELSE IF allDigits(arg) THEN IntV(readDigits(arg, 0, 0))
    ELSE StrV(arg)

\* the number of parentheses open after text[i..j]
nested(text, i, j) ==
    Cardinality({k \in i..j : text[k] = "("}) - Cardinality({k \in i..j : text[k] = ")"})

\* the first character of the next element at or after i
elementStart(text, i) ==
    Min({k \in i..Len(text) : ~isSpace(text[k])} \cup {Len(text) + 1})

\* the last character of the element that starts at i: the one before the
\* first white space outside parentheses
elementEnd(text, i) ==
    Min({j \in i..Len(text) : /\ nested(text, i, j) = 0
                              /\ (j = Len(text) \/ isSpace(text[j + 1]))}
        \cup {Len(text)})

RECURSIVE fromStringLoop(_, _, _)

\* the element that starts at i is added to the Bottle
nextElement(text, i, out) ==
    fromStringLoop(text, elementEnd(text, i) + 1,
                   Append(out, smartAdd(SubSeq(text, i, elementEnd(text, i)))))

\* the scan of a text from i on; out is the Bottle read so far
fromStringLoop(text, i, out) ==
    IF elementStart(text, i) > Len(text) THEN out
    ELSE nextElement(text, elementStart(text, i), out)

\* Bottle::fromString: elements are separated by white space, parentheses
\* nest
fromString(text) == fromStringLoop(text, 1, <<>>)

\* --format "(\"/a b\")": a quoted name
FmtSpaced == ListV(<<StrV(<<"/", "a", " ", "b">>)>>)

RoundTripFormats == {f \in Formats : isList(f)} \cup {FmtSpaced}

\* the tree read back from the text of a tree
reparse(t) ==
    IF Len(fromString(toString(t, 0))) = 1 /\ isList(fromString(toString(t, 0))[1])
    THEN RootSelector_new(asList(fromString(toString(t, 0))[1]))
    ELSE Err("Please supply a format!")

\* C23: for every successfully parsed tree t, parsing the text that
\* toString gives for t produces a tree equal to t
C23_ToStringRoundTrip ==
    state = "Unconfigured"
    => \A f \in RoundTripFormats :
          RootSelector_new(asList(f)).ok
            => reparse(RootSelector_new(asList(f)).val) = RootSelector_new(asList(f))

\* the round trip for the formats whose names need no quotes
PlainNamesRoundTrip ==
    state = "Unconfigured"
    => \A f \in RoundTripFormats \ {FmtSpaced} :
          RootSelector_new(asList(f)).ok
            => reparse(RootSelector_new(asList(f)).val) = RootSelector_new(asList(f))


\* the index tuples of the dimensions from dim on, in lexicographic order
\* of the positions, the first dimension slowest
RECURSIVE tuples(_, _)
tuples(indices, dim) ==
    IF dim > Len(indices) THEN << <<>> >>
    ELSE concatAll([j \in 1..Len(indices[dim]) |->
                       [n \in 1..Len(tuples(indices, dim + 1)) |->
                           <<indices[dim][j]>> \o tuples(indices, dim + 1)[n]]])

\* every position of the tuple exists and every inner position is a nested record
RECURSIVE wellIndexed(_, _)
wellIndexed(rec, tuple) ==
    /\ tuple[1] \in 1..Len(rec)
    /\ Len(tuple) > 1 => /\ isList(rec[tuple[1]])
                         /\ wellIndexed(asList(rec[tuple[1]]), Tail(tuple))

\* the element reached by indexing with the tuple
RECURSIVE reach(_, _)
reach(rec, tuple) ==
    IF Len(tuple) = 1 THEN rec[tuple[1]] ELSE reach(asList(rec[tuple[1]]), Tail(tuple))

\* what the element reached adds (a nested record adds its children)
reached(rec, tuple) ==
    IF isList(reach(rec, tuple)) THEN asList(reach(rec, tuple)) ELSE <<reach(rec, tuple)>>

\* (((1 2) (3 4)) ((5 6) (7 8)))
RecCube == <<ListV(<<ListV(<<IntV(1), IntV(2)>>), ListV(<<IntV(3), IntV(4)>>)>>),
             ListV(<<ListV(<<IntV(5), IntV(6)>>), ListV(<<IntV(7), IntV(8)>>)>>)>>

\* leaves with two and three dimensions
GridLeaves ==
    { IndexSelector(NameA, <<<<2, 1>>, <<1, 2, 1>>>>),
      IndexSelector(NameA, <<<<1, 2>>, <<2>>, <<2, 1>>>>),
      IndexSelector(NameA, <<<<2>>, <<1, 2>>, <<1, 1>>>>),
      IndexSelector(NameA, <<<<1, 3>>, <<1>>>>) }

\* on a well indexed record the leaf adds to A what its tuples reach, in order
inLexicographicOrder(leaf, A, rec) ==
    ( /\ Len(leaf.indices) >= 2
      /\ \A n \in 1..Len(tuples(leaf.indices, 1)) :
             wellIndexed(rec, tuples(leaf.indices, 1)[n]) )
    => /\ selectRecursive(leaf, A, rec, 1).ok
       /\ selectRecursive(leaf, A, rec, 1).val
            = A \o concatAll([n \in 1..Len(tuples(leaf.indices, 1)) |->
                                 reached(rec, tuples(leaf.indices, 1)[n])])

\* C24: a leaf with k >= 2 dimensions, on a record where every indexed
\* position exists and every inner position is a nested record, adds the
\* contributions of the index tuples (i1, ..., ik) in lexicographic order,
\* the first dimension varying slowest; each tuple adds the element reached
\* by indexing with i1, then i2, ..., then ik
C24_TuplesInLexicographicOrder ==
    /\ state = "Unconfigured"
       => \A leaf \in GridLeaves, A \in Accumulators, rec \in Records \cup {RecCube} :
             inLexicographicOrder(leaf, A, rec)
    /\ pc = "select"
       => \A leaf \in leaves(dataSelector) :
             hasSource(sourceMap, leaf.name)
             => /\ inLexicographicOrder(leaf, <<>>, sourceMap[leaf.name].data)
                /\ Len(leaf.indices) >= 2
                     => IndexSelector_select(leaf, <<>>, sourceMap)
                          = selectRecursive(leaf, <<>>, sourceMap[leaf.name].data, 1)

C24_Witness ==
    /\ dataSelector.children = <<IndexSelector(NameA, <<<<1, 2>>, <<2, 1>>>>)>>
    /\ hasSource(sourceMap, NameA)
    /\ sourceMap[NameA].data = RecPairs
    /\ output = <<<<IntV(11), IntV(10), IntV(21), IntV(20)>>>>


\* C25: once the module is configured, no step of a tick and no command
\* changes the tree or the set of declared sources; a command handled at any
\* point of a tick changes neither the cached records, nor the position of
\* the tick, nor the record the tick is going to write
C25_TreeAndSourcesFrozen ==
    [][/\ (state # "Unconfigured")
            => (/\ dataSelector' = dataSelector
                /\ DOMAIN sourceMap' = DOMAIN sourceMap)
       /\ (state = "Running" /\ desiredPeriod' # desiredPeriod)
            => (/\ pc' = pc
                /\ it' = it
                /\ output' = output
                /\ sourceMap' = sourceMap
                /\ network' = network
                /\ select(dataSelector', <<>>, sourceMap')
                     = select(dataSelector, <<>>, sourceMap))
      ]_vars

C25_Witness ==
    /\ state = "Running"
    /\ pc = "select"
    /\ desiredPeriod = Period(-1, 2)
    /\ DOMAIN sourceMap = {NameA, NameB}
    /\ select(dataSelector, <<>>, sourceMap).ok


\* C26: a declare that fails leaves the source list without an entry for
\* the name, so that the list only holds sources that were connected and a
\* later declare of the name tries again
C26_FailedDeclareLeavesNoEntry ==
    /\ state = "Unconfigured"
          => \A n \in {NameA, NameB}, valid, reachable \in SUBSET {NameA, NameB} :
                ~addSource(NoRegistry, n, valid, reachable).ok
                => /\ ~hasSource(addSource(NoRegistry, n, valid, reachable).sl, n)
                   /\ addSource(addSource(NoRegistry, n, valid, reachable),
                                 n, {n}, {n}).net[n].connected
    /\ (state = "Failed" /\ lastError = "Cannot find requested port")
          => \A n \in DOMAIN sourceMap : network[n].connected

\* the declare of the module's one source has failed
FailedDeclare ==
    /\ state = "Failed"
    /\ lastError = "Cannot find requested port"
    /\ Len(declareSources(dataSelector)) = 1
    /\ sourceMap # NoSources


----------------------------------------------------------------------------
(* The training module: TrainProcessor::onRead, TrainModule::respond and   *)
(* DispatcherManager::respond.  The commands load, save, set and cmd, which *)
(* go to the file system and to the configuration of the machine, are not  *)
(* among the inputs.                                                       *)

\* the most samples fed and events raised, models written, listeners held
MaxSamples == 1
MaxModels == 1
MaxListeners == 2

\* Value::asInt32
asInt32(val) == val.n

\* Bottle::tail
tail(bot) == IF bot = <<>> THEN <<>> ELSE Tail(bot)

\* the keys of the event listener factory
TrainName   == <<"t", "r", "a", "i", "n">>
PredictName == <<"p", "r", "e", "d", "i", "c", "t">>
ListenerTypes == {TrainName, PredictName}

\* EventDispatcher::hasListeners, countListeners, addListener,
\* removeListener (0-based index) and clear
hasListeners(ls) == ls # <<>>
countListeners(ls) == Len(ls)
addListener(ls, l) == Append(ls, l)
removeListener(ls, idx) ==
    [i \in 1..(Len(ls) - 1) |-> IF i <= idx THEN ls[i] ELSE ls[i + 1]]
clear(ls) == <<>>

\* what DispatcherManager::respond leaves: the listeners, the reply and
\* its return value
Outcome(ls, msgs, success) == [ls |-> ls, msgs |-> msgs, success |-> success]

\* the catch handler of DispatcherManager::respond
caught(ls, msgs, what) == Outcome(ls, Append(msgs, what), TRUE)

\* the loop of the add case from element i of the list on: every type is
\* created by the factory, which throws for a type it does not know
RECURSIVE addListeners(_, _, _, _)
addListeners(ls, list, i, msgs) ==
    IF i >= Len(list)
    THEN Outcome(ls, Append(msgs, "Successfully added listener(s)"), TRUE)
    ELSE IF asString(get(list, i)) \notin ListenerTypes
    THEN caught(ls, msgs, "Error: unknown listener type")
    ELSE addListeners(addListener(ls, asString(get(list, i))), list, i + 1, msgs)

All == <<"a", "l", "l">>

\* variant of the remove case that takes the index as a 0-based position
removeListeners_zeroBased(cmd, ls, msgs) ==
    IF isInt32(get(cmd, 1)) /\ asInt32(get(cmd, 1)) >= 0
                            /\ asInt32(get(cmd, 1)) < countListeners(ls)
    THEN Outcome(removeListener(ls, asInt32(get(cmd, 1))),
                 Append(msgs, "Successfully removed listener."), TRUE)
    ELSE IF asString(get(cmd, 1)) = All
    THEN Outcome(clear(ls), Append(msgs, "Successfully removed all listeners."), TRUE)
    ELSE caught(ls, msgs, "Error: Illegal index!")

\* the remove case of DispatcherManager::respond
removeListeners(cmd, ls, msgs) ==
    IF isInt32(get(cmd, 1)) /\ asInt32(get(cmd, 1)) >= 1
                            /\ asInt32(get(cmd, 1)) <= countListeners(ls)
    THEN Outcome(removeListener(ls, asInt32(get(cmd, 1)) - 1),
                 Append(msgs, "Successfully removed listener."), TRUE)
    ELSE IF asString(get(cmd, 1)) = All
    THEN Outcome(clear(ls), Append(msgs, "Successfully removed all listeners."), TRUE)
    ELSE caught(ls, msgs, "Error: Illegal index!")

\* the first line of the reply to info, for 0, 1, 2, ... listeners
ManagerInformation ==
    <<"Event Manager Information (0 listeners)",
      "Event Manager Information (1 listeners)",
      "Event Manager Information (2 listeners)",
      "Event Manager Information (3 listeners)",
      "Event Manager Information (4 listeners)">>

ManagerHelp ==
    <<"help",
      "Event Manager configuration options",
      "  help                  Displays this message",
      "  list                  Print a list of available event listeners",
      "  add type [type2 ...]  Adds one or more event listeners",
      "  remove [all|idx]      Removes event listener at an index or all",
      "  set [all|idx]         Configures a listener",
      "  stats                 Prints information">>

\* DispatcherManager::respond
DispatcherManager_respond(cmd, ls, msgs) ==
    CASE asVocab32(get(cmd, 0)) = <<"h", "e", "l", "p">>
           -> Outcome(ls, msgs \o ManagerHelp, TRUE)
      [] asVocab32(get(cmd, 0)) = <<"l", "i", "s", "t">>
           -> Outcome(ls, msgs \o <<"help", "  predict", "  train">>, TRUE)
      [] asVocab32(get(cmd, 0)) = <<"a", "d", "d">>
           -> addListeners(ls, tail(cmd), 0, msgs)
      [] asVocab32(get(cmd, 0)) \in {<<"r", "e", "m", "o">>, <<"d", "e", "l">>}
           -> removeListeners(cmd, ls, msgs)
      [] asVocab32(get(cmd, 0)) \in {<<"i", "n", "f", "o">>, <<"s", "t", "a", "t">>}
           -> Outcome(ls, msgs \o <<"help", ManagerInformation[countListeners(ls) + 1]>>
                          \o [i \in 1..countListeners(ls) |-> "  [i] listener"],
                      TRUE)
      [] OTHER -> Outcome(ls, msgs, FALSE)

\* the members TrainModule::respond works on
Members(en, m, ls, out, r) ==
    [enabled |-> en, machine |-> m, listeners |-> ls, model_out |-> out, reply |-> r]

\* the model case: the machine is written on model_out
sendModel(st, msgs) ==
    [st EXCEPT !.model_out = st.model_out + 1,
               !.reply = Reply(Append(msgs, "The model has been written to the port."), TRUE)]

\* the catch handler of TrainModule::respond
caughtInRespond(st, what) == [st EXCEPT !.reply = Reply(<<what>>, TRUE)]

\* variant of the train case that ends with a break
trainCase_break(st, throws) ==
    IF throws
    THEN caughtInRespond(st, "Error: training failed")
    ELSE [st EXCEPT !.machine.trained = TRUE,
                    !.reply = Reply(<<"Training completed.">>, FALSE)]

\* the train case: IMachineLearner::train, which may throw, and then,
\* without a break, the model case
trainCase(st, throws) ==
    IF throws
    THEN caughtInRespond(st, "Error: training failed")
    ELSE sendModel([st EXCEPT !.machine.trained = TRUE], <<"Training completed.">>)

\* the pause and continue cases: TrainProcessor::setEnabled and the reply
setEnabled(st, val, msg) == [st EXCEPT !.enabled = val, !.reply = Reply(<<msg>>, TRUE)]

\* the event case: the rest of the command goes to the DispatcherManager
eventCase(st, outcome) ==
    [st EXCEPT !.listeners = outcome.ls, !.reply = Reply(outcome.msgs, outcome.success)]

TrainHelp ==
    <<"help",
      "Training module configuration options",
      "  help                  Displays this message",
      "  train                 Trains the machine and sends the model",
      "  model                 Sends the model to the prediction module",
      "  reset                 Resets the machine to its current state",
      "  info                  Outputs information about the machine",
      "  pause                 Disable passing the samples to the machine",
      "  continue              Enable passing the samples to the machine",
      "  set key val           Sets a configuration option for the machine",
      "  load fname            Loads a machine from a file",
      "  save fname            Saves the current machine to a file",
      "  event [cmd ...]       Sends commands to event dispatcher (see: event help)",
      "  cmd fname             Loads commands from a file",
      "machine configuration help">>

\* TrainModule::respond
TrainModule_respond(st, cmd, throws) ==
    CASE asVocab32(get(cmd, 0)) = <<"h", "e", "l", "p">>
           -> [st EXCEPT !.reply = Reply(TrainHelp, TRUE)]
      [] asVocab32(get(cmd, 0)) = <<"t", "r", "a", "i">>
           -> trainCase(st, throws)
      [] asVocab32(get(cmd, 0)) = <<"m", "o", "d", "e">>
           -> sendModel(st, <<>>)
      [] asVocab32(get(cmd, 0)) \in {<<"c", "l", "e", "a">>, <<"c", "l", "r">>,
                                     <<"r", "e", "s", "e">>, <<"r", "s", "t">>}
           -> [st EXCEPT !.machine = Machine(st.machine.wrapped, 0, FALSE),
                         !.reply = Reply(<<"Machine cleared.">>, TRUE)]
      [] asVocab32(get(cmd, 0)) \in {<<"p", "a", "u", "s">>, <<"d", "i", "s", "a">>}
           -> setEnabled(st, FALSE, "Sample stream to machine disabled.")
      [] asVocab32(get(cmd, 0)) \in {<<"c", "o", "n", "t">>, <<"e", "n", "a", "b">>}
           -> setEnabled(st, TRUE, "Sample stream to machine enabled.")
      [] asVocab32(get(cmd, 0)) \in {<<"i", "n", "f", "o">>, <<"s", "t", "a", "t">>}
           -> [st EXCEPT !.reply = Reply(<<"help", "Machine Information: ",
                                           "machine information">>, TRUE)]
      [] asVocab32(get(cmd, 0)) = <<"e", "v", "e", "n">>
           -> eventCase(st, DispatcherManager_respond(tail(cmd), st.listeners, <<>>))
      [] OTHER -> [st EXCEPT !.reply = Reply(<<>>, FALSE)]


\* the commands sent to the training module
VocabTrain    == Vocab(<<"t", "r", "a", "i">>)
VocabModel    == Vocab(<<"m", "o", "d", "e">>)
VocabReset    == Vocab(<<"r", "e", "s", "e">>)
VocabPause    == Vocab(<<"p", "a", "u", "s">>)
VocabDisable  == Vocab(<<"d", "i", "s", "a">>)
VocabContinue == Vocab(<<"c", "o", "n", "t">>)
VocabEnable   == Vocab(<<"e", "n", "a", "b">>)
VocabEvent    == Vocab(<<"e", "v", "e", "n">>)
VocabAdd      == Vocab(<<"a", "d", "d">>)
VocabRemove   == Vocab(<<"r", "e", "m", "o">>)
VocabList     == Vocab(<<"l", "i", "s", "t">>)

\* the arguments of "event remove": indices, all, another string, nothing
RemoveArguments ==
    {<<IntV(n)>> : n \in -1..(MaxListeners + 1)}
    \cup {<<StrV(All)>>, <<StrV(<<"x">>)>>, <<>>}

EventCommands ==
    {<<VocabEvent, VocabAdd, StrV(TrainName)>>,
     <<VocabEvent, VocabAdd, StrV(PredictName), StrV(TrainName)>>,
     <<VocabEvent, VocabAdd, StrV(PredictName), StrV(<<"x">>)>>,
     <<VocabEvent, VocabHelp>>, <<VocabEvent, VocabList>>,
     <<VocabEvent, VocabStat>>, <<VocabEvent>>}
    \cup {<<VocabEvent, VocabRemove>> \o arg : arg \in RemoveArguments}

TrainCommands ==
    {<<VocabHelp>>, <<VocabTrain>>, <<VocabModel>>, <<VocabReset>>, <<VocabPause>>,
     <<VocabDisable>>, <<VocabContinue>>, <<VocabEnable>>, <<VocabInfo>>,
     <<StrV(<<"x">>)>>}
    \cup EventCommands

\* --help, --list, --load file, --machine type, or none of them
TrainOptions == {"help", "list", "load", "machine", "none"}

\* TrainModule::configure: with --load or --machine a machine is wrapped
\* and the module runs; otherwise configure returns false
TrainConfigure(opt) ==
    /\ trainState = "Unconfigured"
    /\ IF opt \in {"load", "machine"}
       THEN /\ trainState' = "Running"
            /\ \E trained \in (IF opt = "load" THEN BOOLEAN ELSE {FALSE}) :
                  machine' = Machine(TRUE, 0, trained)
       ELSE /\ trainState' = "Exited"
            /\ machine' = machine
    /\ UNCHANGED <<mergeVars, threadVars, enabled, listeners, raised, model_out,
                   reply>>

\* the members before a command
Train == Members(enabled, machine, listeners, model_out, reply)

\* a command arrives on cmd_in or the terminal: TrainModule::respond
TrainRespond(cmd, throws) ==
    /\ trainState = "Running"
    /\ \E after \in {TrainModule_respond(Train, cmd, throws)} :
          /\ after.model_out <= MaxModels
          /\ Len(after.listeners) <= MaxListeners
          /\ enabled' = after.enabled
          /\ machine' = after.machine
          /\ listeners' = after.listeners
          /\ model_out' = after.model_out
          /\ reply' = after.reply
    /\ UNCHANGED <<mergeVars, threadVars, trainState, raised>>

\* what the try block of onRead can meet: nothing, an exception of predict
\* or of raise, an exception of feedSample
Throws == {"", "event", "feedSample"}

\* what onRead leaves: the machine, the events raised, its line on std::cerr
Stream(m, n, err) == [machine |-> m, raised |-> n, err |-> err]

\* the try block of onRead: the event code, then feedSample
feed(m, n, ls, throws) ==
    IF hasListeners(ls) /\ throws = "event"
    THEN Stream(m, n, "Error: event")
    ELSE IF throws = "feedSample"
    THEN Stream(m, IF hasListeners(ls) THEN n + 1 ELSE n, "Error: feedSample")
    ELSE Stream([m EXCEPT !.fed = m.fed + 1], IF hasListeners(ls) THEN n + 1 ELSE n, "")

\* variant of onRead that does not look at the enabled flag
onRead_always(m, en, n, ls, throws) ==
    IF m.wrapped THEN feed(m, n, ls, throws) ELSE Stream(m, n, "")

\* TrainProcessor::onRead
onRead(m, en, n, ls, throws) ==
    IF m.wrapped /\ en THEN feed(m, n, ls, throws) ELSE Stream(m, n, "")

\* a sample arrives on train_in
OnRead(throws) ==
    /\ trainState = "Running"
    /\ machine.fed < MaxSamples
    /\ raised < MaxSamples
    /\ \E after \in {onRead(machine, enabled, raised, listeners, throws)} :
          /\ machine' = after.machine
          /\ raised' = after.raised
    /\ UNCHANGED <<mergeVars, threadVars, trainState, enabled, listeners, model_out, reply>>

\* the module is stopped: TrainModule::interruptModule and close
TrainClose ==
    /\ trainState = "Running"
    /\ trainState' = "Exited"
    /\ UNCHANGED <<mergeVars, threadVars, enabled, machine, listeners, raised,
                   model_out, reply>>

TrainNext ==
    \/ \E opt \in TrainOptions : TrainConfigure(opt)
    \/ \E cmd \in TrainCommands, throws \in BOOLEAN : TrainRespond(cmd, throws)
    \/ \E throws \in Throws : OnRead(throws)
    \/ TrainClose

TrainSpec == Init /\ [][TrainNext]_vars


TrainedAndSent ==
    Reply(<<"Training completed.", "The model has been written to the port.">>, TRUE)

ModelSent == Reply(<<"The model has been written to the port.">>, TRUE)

\* C27: in the training module a train command trains the machine and, in
\* the same command, writes the model on the model port, replies with the
\* training message and the model message and reports success; a model
\* command writes the model and leaves the machine as it is
C27_TrainSendsModel ==
    [][(trainState = "Running")
         => /\ TrainModule_respond(Train, <<VocabTrain>>, FALSE)
                 = Members(enabled, [machine EXCEPT !.trained = TRUE], listeners,
                           model_out + 1, TrainedAndSent)
            /\ TrainModule_respond(Train, <<VocabModel>>, FALSE)
                 = Members(enabled, machine, listeners, model_out + 1, ModelSent)
            /\ (machine'.trained /\ ~machine.trained)
                 => (model_out' = model_out + 1 /\ reply' = TrainedAndSent)
            /\ (reply' = TrainedAndSent /\ model_out' # model_out)
                 => (machine'.trained /\ model_out' = model_out + 1)
            /\ (reply' = ModelSent /\ model_out' # model_out)
                 => (machine' = machine /\ model_out' = model_out + 1)
      ]_vars

C27_Witness ==
    /\ trainState = "Running"
    /\ machine = Machine(TRUE, 1, TRUE)
    /\ model_out = 1
    /\ reply = TrainedAndSent

StreamDisabled == Reply(<<"Sample stream to machine disabled.">>, TRUE)
StreamEnabled  == Reply(<<"Sample stream to machine enabled.">>, TRUE)

without(ls, n) == SubSeq(ls, 1, n - 1) \o SubSeq(ls, n + 1, Len(ls))

IllegalIndex == Outcome(listeners, <<"Error: Illegal index!">>, TRUE)

\* C29: in the event manager, remove with an integer idx in 1..N, N being
\* the number of listeners, removes the listener at the 1-based position idx
\* and leaves the other N-1 in their order; remove all leaves none; any other
\* argument (0, a negative number, a number above N, another string, no
\* argument) leaves the listeners as they are and replies with the error
\* "Illegal index!"
C29_RemoveListener ==
    (trainState = "Running")
    => \A arg \in RemoveArguments, word \in {VocabRemove, Vocab(<<"d", "e", "l">>)} :
          /\ DispatcherManager_respond(<<word>> \o arg, listeners, <<>>)
               = IF arg # <<>> /\ isInt32(arg[1]) /\ arg[1].n \in 1..Len(listeners)
                 THEN Outcome(without(listeners, arg[1].n),
                              <<"Successfully removed listener.">>, TRUE)
                 ELSE IF arg = <<StrV(All)>>
                 THEN Outcome(<<>>, <<"Successfully removed all listeners.">>, TRUE)
                 ELSE IllegalIndex
          /\ TrainModule_respond(Train, <<VocabEvent, word>> \o arg, FALSE).listeners
               = DispatcherManager_respond(<<word>> \o arg, listeners, <<>>).ls

C29_Witness ==
    /\ trainState = "Running"
    /\ listeners = <<TrainName>>
    /\ reply = Reply(<<"Successfully removed listener.">>, TRUE)


----------------------------------------------------------------------------
(* The position-direct control thread, for a part with one controlled      *)
(* joint; positions are whole degrees.                                     *)

\* the size of the list of joints given to init
control_joints == 1

\* what ilim->getLimits gives for the joint
min_limits == -3
max_limits == 3

\* the values set by the constructor
joints_limiter == 2
target_limiter == 1

\* the most position commands sent
MaxPositions == 2

\* where the joint is when init reads its encoder
JointPositions == {-1, 0, 2}

\* the Bottles written to command_port: a target for the joint, or a Bottle
\* of another size
CommandBottles == {<<IntV(5)>>, <<IntV(-5)>>, <<IntV(0)>>, <<IntV(1), IntV(1)>>, <<>>}

\* the targets read from the Bottle, when it has the right size
readTargets(bot, old) ==
    IF Len(bot) = control_joints THEN asFloat64(get(bot, 0)) ELSE old

\* prev_targets after the Bottle is read
readPrevious(bot, old, prev) ==
    IF Len(bot) = control_joints THEN old ELSE prev

\* the joint limits
limitJoint(t) ==
    IF t > max_limits THEN max_limits ELSE IF t < min_limits THEN min_limits ELSE t

\* the limit on the difference between the previous and the current target
limitDifference(t, prev) ==
    IF t - prev > target_limiter THEN prev + target_limiter
    ELSE IF t - prev < 0 - target_limiter THEN prev - target_limiter
    ELSE t

\* the slew rate limiter
limitSlew(t, enc) ==
    IF t - enc > joints_limiter THEN enc + joints_limiter
    ELSE IF t - enc < 0 - joints_limiter THEN enc - joints_limiter
    ELSE t

\* the target that run sends for a Bottle
newTarget(bot, old, prev, enc) ==
    limitSlew(limitDifference(limitJoint(readTargets(bot, old)),
                              readPrevious(bot, old, prev)),
              enc)

\* positionDirectControlThread::init: the port is opened, the vectors are
\* set from the encoder of the joint
ThreadInitialise(p) ==
    /\ threadState = "Constructed"
    /\ threadState' = "Initialised"
    /\ joint' = p
    /\ encoders' = p
    /\ targets' = p
    /\ prev_targets' = p
    /\ UNCHANGED <<mergeVars, trainVars, suspended, command_port, positions>>

\* PeriodicThread::start: positionDirectControlThread::threadInit
ThreadStart ==
    /\ threadState = "Initialised"
    /\ threadState' = "Started"
    /\ suspended' = TRUE
    /\ UNCHANGED <<mergeVars, trainVars, command_port, targets, prev_targets,
                   encoders, joint, positions>>

\* a Bottle is written to command_port; the port keeps the latest one
Command(bot) ==
    /\ threadState \in {"Initialised", "Started"}
    /\ command_port' = <<bot>>
    /\ UNCHANGED <<mergeVars, trainVars, threadState, suspended, targets, prev_targets,
                   encoders, joint, positions>>

\* variant of run that returns at once while the thread is suspended
Run_whenGoing ==
    /\ threadState = "Started"
    /\ ~suspended
    /\ command_port # <<>>
    /\ Len(positions) < MaxPositions
    /\ command_port' = <<>>
    /\ prev_targets' = readPrevious(command_port[1], targets, prev_targets)
    /\ encoders' = joint
    /\ targets' = newTarget(command_port[1], targets, prev_targets, joint)
    /\ positions' = Append(positions, newTarget(command_port[1], targets, prev_targets, joint))
    /\ UNCHANGED <<mergeVars, trainVars, threadState, suspended, joint>>

\* positionDirectControlThread::run when command_port.read(false) gives a
\* Bottle (it returns at once when there is none): the targets are read,
\* limited, and sent with setPositions
Run ==
    /\ threadState = "Started"
    /\ command_port # <<>>
    /\ Len(positions) < MaxPositions
    /\ command_port' = <<>>
    /\ prev_targets' = readPrevious(command_port[1], targets, prev_targets)
    /\ encoders' = joint
    /\ targets' = newTarget(command_port[1], targets, prev_targets, joint)
    /\ positions' = Append(positions, newTarget(command_port[1], targets, prev_targets, joint))
    /\ UNCHANGED <<mergeVars, trainVars, threadState, suspended, joint>>

\* positionDirectControlThread::halt
Halt ==
    /\ threadState \in {"Initialised", "Started"}
    /\ suspended' = TRUE
    /\ UNCHANGED <<mergeVars, trainVars, threadState, command_port, targets,
                   prev_targets, encoders, joint, positions>>

\* positionDirectControlThread::go
Go ==
    /\ threadState \in {"Initialised", "Started"}
    /\ suspended' = FALSE
    /\ UNCHANGED <<mergeVars, trainVars, threadState, command_port, targets,
                   prev_targets, encoders, joint, positions>>

\* the motor follows the last position command
Move ==
    /\ positions # <<>>
    /\ joint' = positions[Len(positions)]
    /\ UNCHANGED <<mergeVars, trainVars, threadState, suspended, command_port, targets,
                   prev_targets, encoders, positions>>

\* PeriodicThread::stop: positionDirectControlThread::threadRelease
ThreadRelease ==
    /\ threadState = "Started"
    /\ threadState' = "Released"
    /\ suspended' = TRUE
    /\ command_port' = <<>>
    /\ UNCHANGED <<mergeVars, trainVars, targets, prev_targets, encoders, joint, positions>>

ThreadNext ==
    \/ \E p \in JointPositions : ThreadInitialise(p)
    \/ ThreadStart
    \/ \E bot \in CommandBottles : Command(bot)
    \/ Run
    \/ Halt
    \/ Go
    \/ Move
    \/ ThreadRelease

ThreadSpec == Init /\ [][ThreadNext]_vars

\* C30: while the control thread is suspended, from its start and after
\* halt up to the next go, no run cycle sends a position command
C30_SuspendedSendsNothing ==
    [][positions' # positions => (~suspended /\ ~suspended')]_vars

\* a position command has been sent although go was never called
SentWhileSuspended ==
    /\ threadState = "Started"
    /\ suspended
    /\ positions # <<>>

====
